---------------------------- MODULE Spec2Model ----------------------------
(***************************************************************************)
(* A state-machine model of the virtualized list widget of src/list.go     *)
(* (package fyneadvancedlist).                                             *)
(*                                                                         *)
(* Lengths and positions are integers (the program uses float32): one      *)
(* unit is one unit of fyne.Size.  The drag separator position is kept in  *)
(* half units because the code subtracts padding/2 and 1.5 * thickness.    *)
(*                                                                         *)
(* The widget runs on the toolkit's single event thread, so every public   *)
(* method and every toolkit event is one atomic action.  The program       *)
(* state is gathered into one record (Cur) on which the methods are        *)
(* written as operators that return the record after the call; nested      *)
(* calls are operator applications in the order of the code.               *)
(*                                                                         *)
(* Calls into the toolkit (container.Scroll, BaseWidget, the widget        *)
(* renderer cache, sync.Pool) are modelled by what the toolkit does at     *)
(* the call site; those operators are named scroller..., base... and       *)
(* pool... and say so in their comment.                                    *)
(***************************************************************************)
EXTENDS Integers, Sequences, FiniteSets, Bags, TLC

\* ------------------------------------------------------------- bounds
\* Length() returns a value in 0..MaxItems.
MaxItems == 2
\* The template row height, CreateItem().MinSize().Height (itemMin.Height).
ItemMinHeight == 2
\* theme padding, Theme().Size(theme.SizeNamePadding).
Padding == 1
\* Viewport heights the host gives the list are 0..MaxViewH.
MaxViewH == 5
\* Override heights passed to SetItemHeight.
Heights == {0, 4}
\* Row IDs passed to the public methods: -1 is below the valid range, and
\* those from Length() on are above it.
Ids == -1 .. MaxItems - 1
\* Row IDs passed to SetItemHeight.
HeightIds == 0 .. MaxItems - 1
\* Row IDs passed to SetItemHeight by a host that does not keep to the rows
\* of the list: SetItemHeight takes any ListItemID.
AnyHeightIds == -1 .. MaxItems
\* Viewport heights passed to Resize.
ViewHeights == {0, MaxViewH - 1, MaxViewH}
\* Offsets passed to ScrollToOffset.
Offsets == {-1, 0, 1, 3, 4 * MaxItems + 2}
\* Viewport heights of a list that is shown: one that has room for less than
\* a row, and the largest.
ShownViewHeights == {1, MaxViewH}
\* The heights an UpdateItem callback gives its rows through SetItemHeight.
UpdateHeights == {1, 4}
\* UpdateItem does not call SetItemHeight.
NoHeight == -1
\* The number of listRenderer.Refresh calls of one call that are followed.
RefreshLimit == 2 * MaxItems + 2
\* cap(l.visible) is not kept.
NoCap == -1
\* Pointer positions of a drag event, relative to the top of the list.
DragYs == {-249, 0, 2, 4, 300}

\* ------------------------------------------------------- program constants
maxScrollSpeed == 500
minScrollSpeed == 3
scrollAccelerateRange == 250
\* theme.SeparatorThicknessSize() * dragSeparatorThicknessMultiplier (1 * 1.5),
\* in half units.
dragSeparatorThickness2 == 3

VARIABLES
    length,          \* the value Length() returns (the host's data)
    EnableDragging,  \* List.EnableDragging
    currentFocus,    \* List.currentFocus
    focused,         \* List.focused
    rendered,        \* List.scroller # nil (CreateRenderer has run)
    scrollerOffset,  \* List.scroller.Offset.Y
    viewH,           \* List.scroller.Size().Height = List.Size().Height
    contentH,        \* List.scroller.Content.Size().Height
    selected,        \* List.selected
    itemHeights,     \* List.itemHeights
    offsetY,         \* List.offsetY
    visible,         \* listLayout.visible: sequence of [id, item]
    wasVisible,      \* listLayout.wasVisible
    children,        \* listLayout.children: the row handles rendered
    itemPool,        \* listLayout.itemPool: a bag of handles
    items,           \* every listItem constructed: handle -> its fields
    draggingRow,     \* listLayout.draggingRow
    dragRelativeY,   \* listLayout.dragRelativeY
    dragInsertAt,    \* listLayout.dragInsertAt
    dragScrollAnim,  \* listLayout.dragScrollAnim # nil
    animsRunning,    \* animations started by ensureStartDragAnim and not stopped
    scrollAnimSpeed, \* listLayout.scrollAnimSpeed
    dragSepHidden,   \* listLayout.dragSeparator.Hidden
    dragSepY2,       \* listLayout.dragSeparator.Position().Y, in half units
    poolPick,        \* which of its handles sync.Pool.Get returns: "low" or "high"
    dragHandle,      \* the handle the toolkit's drag gesture goes to, 0 if none
    panicked,        \* a nil dereference ended the last call
    log,             \* observer callbacks fired by the last call, in order
    nRefresh,        \* listRenderer.Refresh calls made by the last call
    lastOp,          \* the last call and its arguments
    CreateItem,      \* List.CreateItem # nil
    updateHeight,    \* the height List.UpdateItem passes to SetItemHeight for
                     \* the row it updates, NoHeight when it does not call it
    OnSelected,      \* what the host's List.OnSelected callback calls
    OnUnselected,    \* what the host's List.OnUnselected callback calls
    visCap,          \* cap(listLayout.visible), NoCap where no loop over
                     \* l.visible is interrupted and it is not kept
    updatePos,       \* 0, or k >= 1: an updateList call that runs next to
                     \* the other calls has placed k - 1 rows
    recon,           \* the last updateList call: newOnly, l.visible before
                     \* it, l.wasVisible after line 852, and the row IDs
                     \* UpdateItem was called with
    calcIn,          \* calculateVisibleRowHeights called on its own: its inputs
    calcOut          \* and its result

vars == <<length, EnableDragging, currentFocus, focused, rendered, scrollerOffset,
          viewH, contentH, selected, itemHeights, offsetY, visible, wasVisible,
          children, itemPool, items, draggingRow, dragRelativeY, dragInsertAt,
          dragScrollAnim, animsRunning, scrollAnimSpeed, dragSepHidden, dragSepY2,
          poolPick,
          dragHandle, panicked,
          log, nRefresh, lastOp, CreateItem, updateHeight, visCap, updatePos,
          OnSelected, OnUnselected,
          recon, calcIn,
          calcOut>>

\* ------------------------------------------------------------ arithmetic
Max(a, b) == IF a >= b THEN a ELSE b
Min(a, b) == IF a <= b THEN a ELSE b
Abs(a) == IF a >= 0 THEN a ELSE -a
\* math.Floor(a / b) and math.Ceil(a / b) for b > 0.
FloorDiv(a, b) == a \div b
\* A variant of math.Ceil(a / b) that rounds down.
CeilDivDown(a, b) == a \div b
CeilDiv(a, b) == -((-a) \div b)
\* math.Round(a / b) for b > 0: halves round away from zero.
RoundDiv(a, b) == IF a >= 0 THEN (2 * a + b) \div (2 * b)
                  ELSE -((2 * (-a) + b) \div (2 * b))


\* ------------------------------------------------------------ geometry
\* The height of row i: its override when it has one, else the template's.
RowHeight(s, i) ==
    IF i \in DOMAIN s.itemHeights THEN s.itemHeights[i] ELSE ItemMinHeight

RECURSIVE SumHeights(_, _)
SumHeights(h, S) ==
    IF S = {} THEN 0
    ELSE LET id == CHOOSE x \in S : TRUE
         IN h[id] + SumHeights(h, S \ {id})

\* List.contentMinSize().Height
contentMinSize(s) ==
    LET items_ == s.length
        custom == {id \in DOMAIN s.itemHeights : id < items_}
    IN IF DOMAIN s.itemHeights = {}
       THEN (ItemMinHeight + Padding) * items_ - Padding
       ELSE SumHeights(s.itemHeights, custom)
            + (items_ - Cardinality(custom)) * ItemMinHeight
            + Padding * (items_ - 1)

\* The loop of the variable-height path of calculateVisibleRowHeights
\* (lines 487-508), from row i on: acc is
\* [rowOffset, isVisible, offY, minRow, heights].
RECURSIVE visibleRowScan(_, _, _, _, _, _)
visibleRowScan(s, itemHeight, count, padding, i, acc) ==
    IF i >= count THEN acc
    ELSE LET height == IF i \in DOMAIN s.itemHeights THEN s.itemHeights[i]
                       ELSE itemHeight
             a1 == IF acc.rowOffset <= s.offsetY - height - padding
                   THEN acc
                   ELSE IF acc.rowOffset <= s.offsetY
                        THEN [acc EXCEPT !.minRow = i, !.offY = acc.rowOffset,
                                         !.isVisible = TRUE]
                        ELSE acc
         IN IF a1.rowOffset >= s.offsetY + s.viewH
            THEN a1
            ELSE visibleRowScan(s, itemHeight, count, padding, i + 1,
                   [a1 EXCEPT !.rowOffset = a1.rowOffset + height + padding,
                              !.heights = IF a1.isVisible
                                          THEN Append(a1.heights, height)
                                          ELSE a1.heights])

\* A variant of listLayout.calculateVisibleRowHeights without the clamp of
\* maxRow to length - 1 (lines 477-479).
visibleRowHeightsUnclamped(s, itemHeight, count, padding) ==
    IF s.viewH <= 0
    THEN [offY |-> 0, minRow |-> 0, heights |-> <<>>]
    ELSE IF DOMAIN s.itemHeights = {}
    THEN LET padded == itemHeight + padding
             offY0 == FloorDiv(s.offsetY, padded) * padded
             minRow0 == FloorDiv(offY0, padded)
             maxRow0 == CeilDiv(offY0 + s.viewH, padded)
             minRow1 == IF minRow0 > count - 1 THEN count - 1 ELSE minRow0
             minRow2 == IF minRow1 < 0 THEN 0 ELSE minRow1
             offY1 == IF minRow1 < 0 THEN 0 ELSE offY0
             n == maxRow0 - minRow2 + 1
         IN [offY |-> offY1, minRow |-> minRow2,
             heights |-> [i \in 1 .. Max(n, 0) |-> itemHeight]]
    ELSE LET r == visibleRowScan(s, itemHeight, count, padding, 0,
                    [rowOffset |-> 0, isVisible |-> FALSE, offY |-> 0,
                     minRow |-> 0, heights |-> <<>>])
         IN [offY |-> r.offY, minRow |-> r.minRow, heights |-> r.heights]

\* listLayout.calculateVisibleRowHeights(itemHeight, length, th), padding
\* being the theme's padding: [offY, minRow, heights], heights being
\* l.visibleRowHeights. It reads the list's offsetY, viewport height and
\* itemHeights from s; count is its length parameter.
visibleRowHeights(s, itemHeight, count, padding) ==
    IF s.viewH <= 0
    THEN [offY |-> 0, minRow |-> 0, heights |-> <<>>]
    ELSE IF DOMAIN s.itemHeights = {}
    THEN LET padded == itemHeight + padding
             offY0 == FloorDiv(s.offsetY, padded) * padded
             minRow0 == FloorDiv(offY0, padded)
             maxRow0 == CeilDiv(offY0 + s.viewH, padded)
             minRow1 == IF minRow0 > count - 1 THEN count - 1 ELSE minRow0
             minRow2 == IF minRow1 < 0 THEN 0 ELSE minRow1
             offY1 == IF minRow1 < 0 THEN 0 ELSE offY0
             maxRow1 == IF maxRow0 > count - 1 THEN count - 1 ELSE maxRow0
             n == maxRow1 - minRow2 + 1
         IN [offY |-> offY1, minRow |-> minRow2,
             heights |-> [i \in 1 .. Max(n, 0) |-> itemHeight]]
    ELSE LET r == visibleRowScan(s, itemHeight, count, padding, 0,
                    [rowOffset |-> 0, isVisible |-> FALSE, offY |-> 0,
                     minRow |-> 0, heights |-> <<>>])
         IN [offY |-> r.offY, minRow |-> r.minRow, heights |-> r.heights]

\* The call of line 855: calculateVisibleRowHeights(l.list.itemMin.Height,
\* length, th).
calculateVisibleRowHeights(s) ==
    visibleRowHeights(s, ItemMinHeight, s.length, Padding)

\* sort.Search(n, f) over the 1-based sequence vis with f(i) = vis[i].id >= id:
\* lo and hi are the 0-based bounds of the binary search.
RECURSIVE sortSearch(_, _, _, _)
sortSearch(vis, id, lo, hi) ==
    IF lo >= hi THEN lo
    ELSE LET h == (lo + hi) \div 2
         IN IF ~(vis[h + 1].id >= id)
            THEN sortSearch(vis, id, h + 1, hi)
            ELSE sortSearch(vis, id, lo, h)

\* listLayout.searchVisible: the handle bound to id in vis, or 0 (not found).
searchVisible(vis, id) ==
    LET idx == sortSearch(vis, id, 0, Len(vis))
    IN IF idx < Len(vis) /\ vis[idx + 1].id = id THEN vis[idx + 1].item ELSE 0

\* -------------------------------------------------------- row handles
\* A handle is a number 1..Len(items); items[h] holds the listItem's fields:
\* id, selected, hovered and onTapped (the row ID its tap handler selects,
\* -1 while the handler is nil).
\* newListItem(child, listLayout, nil)
newListItem == [id |-> 0, selected |-> FALSE, hovered |-> FALSE, onTapped |-> -1]

\* sync.Pool.Get on a pool that holds handles: the pool returns any one of
\* them; s.pick says which (the lowest or the highest handle), and is chosen
\* once for a run.
poolGet(s) ==
    LET held == BagToSet(s.itemPool)
    IN IF s.pick = "low"
       THEN CHOOSE h \in held : \A g \in held : h <= g
       ELSE CHOOSE h \in held : \A g \in held : h >= g

\* The call panics: a nil pointer dereference, or the type assertion of
\* getItem on a nil interface value.
panic(s) == [s EXCEPT !.panicked = TRUE]

\* listLayout.getItem: [s, item], the state after the call and the handle.
getItem(s) ==
    IF BagToSet(s.itemPool) # {}
    THEN LET h == poolGet(s)
         IN [s |-> [s EXCEPT !.itemPool = s.itemPool (-) SetToBag({h})],
             item |-> h]
    ELSE IF s.CreateItem
    THEN [s |-> [s EXCEPT !.items = Append(s.items, newListItem)],
          item |-> Len(s.items) + 1]
    ELSE [s |-> panic(s), item |-> 0]

\* listLayout.calculateDragSeparatorY: [s, y2], the state after the call
\* (dragInsertAt is assigned on the uniform path only) and the result in
\* half units.
calculateDragSeparatorY(s) ==
    IF s.viewH <= 0 THEN [s |-> s, y2 |-> 0]
    ELSE LET relY == IF s.dragRelativeY < 0 THEN 0
                     ELSE IF s.dragRelativeY > s.viewH THEN s.viewH
                     ELSE s.dragRelativeY
             numItems == s.length
         IN IF DOMAIN s.itemHeights = {}
            THEN LET paddedItemHeight == ItemMinHeight + Padding
                     beforeItem0 == RoundDiv(relY + s.offsetY, paddedItemHeight)
                     beforeItem == IF beforeItem0 > numItems THEN numItems
                                   ELSE beforeItem0
                 IN [s |-> [s EXCEPT !.dragInsertAt = beforeItem],
                     y2 |-> 2 * beforeItem * paddedItemHeight - Padding
                            - dragSeparatorThickness2]
            ELSE [s |-> s, y2 |-> 0]

\* The second half of updateDragSeparator (lines 926-934): the separator is
\* hidden when it falls outside the list, and moved to sepY2 otherwise.
placeDragSeparator(s, sepY2) ==
    IF sepY2 > 2 * (s.viewH + Padding) \/ sepY2 < -2 * Padding
    THEN [s EXCEPT !.dragSepHidden = TRUE]
    ELSE [s EXCEPT !.dragSepY2 = sepY2, !.dragSepHidden = FALSE]

dragSeparatorAt(r) == placeDragSeparator(r.s, r.y2 - 2 * r.s.offsetY)

\* listLayout.updateDragSeparator
updateDragSeparator(s) == dragSeparatorAt(calculateDragSeparatorY(s))

\* setupListItem without the assignments of line 805 and 824: the handle
\* keeps the row ID and the tap handler it had.
setupListItemKeepId(s, li, id, focus) ==
    [s EXCEPT !.items[li].selected =
                  \E k \in 1 .. Len(s.selected) : s.selected[k] = id,
              !.updated = Append(s.updated, id)]

\* Lines 805-820 of setupListItem, and line 824 with them when UpdateItem
\* does not call back into the list.
setupFields(s, li, id, focus) ==
    LET previousIndicator == s.items[li].selected
        sel == \E k \in 1 .. Len(s.selected) : s.selected[k] = id
        hov == IF focus THEN TRUE
               ELSE IF previousIndicator # sel \/ s.items[li].hovered THEN FALSE
               ELSE s.items[li].hovered
    IN [s EXCEPT !.items[li] = [id |-> id, selected |-> sel, hovered |-> hov,
                                onTapped |-> IF s.updateHeight = NoHeight
                                             THEN id
                                             ELSE s.items[li].onTapped],
                 !.updated = Append(s.updated, id)]

\* Line 824: the tap handler is assigned after UpdateItem has returned.
setOnTapped(s, li, id) == [s EXCEPT !.items[li].onTapped = id]

\* listLayout.setupListItem(li, id, focus).  The host's UpdateItem (line
\* 821-823) calls List.SetItemHeight(id, updateHeight), which can refresh the
\* list before it returns: updateList and RefreshItem are reached again from
\* within themselves.
RECURSIVE SetItemHeight(_, _, _)
RECURSIVE updateList(_, _)
RECURSIVE RefreshItem(_, _)
setupListItem(s, li, id, focus) ==
    IF s.updateHeight = NoHeight
    THEN setupFields(s, li, id, focus)
    ELSE setOnTapped(
           SetItemHeight(setupFields(s, li, id, focus), id, s.updateHeight),
           li, id)

\* A variant of lines 868-875 that takes the handle of every row from
\* getItem.
rowItemFresh(s, c) == getItem(s)

\* Lines 868-875 of updateList: the handle of a row, reused when the row was
\* visible (c # 0) and taken from getItem otherwise.
rowItem(s, c) == IF c = 0 THEN getItem(s) ELSE [s |-> s, item |-> c]

\* A variant of lines 877-882 that puts the row in front of visible.
appendRowFront(g, row) ==
    [g.s EXCEPT !.visible = <<[id |-> row, item |-> g.item]>> \o g.s.visible,
                !.children = Append(g.s.children, g.item)]

\* append(l.visible, e), line 881, seen from the backing array: e is written
\* at index i in place while i is within the capacity; beyond it the slice
\* moves to a new array of twice the capacity and the old array stays as it
\* is for the loops that range over it.
arrayAppend(s, e, i) ==
    IF s.visCap = NoCap THEN s
    ELSE IF i > s.visCap
    THEN [s EXCEPT !.oldArrs = Append(s.oldArrs, s.visArr),
                   !.visArr = Append(SubSeq(s.visArr, 1, i - 1), e),
                   !.visCap = IF s.visCap = 0 THEN 1 ELSE 2 * s.visCap]
    ELSE [s EXCEPT !.visArr = IF i <= Len(s.visArr)
                              THEN [s.visArr EXCEPT ![i] = e]
                              ELSE Append(s.visArr, e)]

appendVisible(s, e) ==
    [arrayAppend(s, e, Len(s.visible) + 1)
     EXCEPT !.visible = Append(s.visible, e),
            !.children = Append(s.children, e.item)]

\* Lines 877-882: the row is appended to visible and children.
appendRow(g, row) ==
    IF g.s.panicked THEN g.s
    ELSE appendVisible(g.s, [id |-> row, item |-> g.item])

\* The row loop of updateList (lines 864-883), from index on.
RECURSIVE placeRows(_, _, _)
\* One pass of the row loop.
placeRow(s, calc, index) ==
    appendRow(rowItem(s, searchVisible(s.wasVisible, (index - 1) + calc.minRow)),
              (index - 1) + calc.minRow)

placeRows(s, calc, index) ==
    IF index > Len(calc.heights) \/ s.panicked THEN s
    ELSE placeRows(placeRow(s, calc, index), calc, index + 1)

\* The loop of lines 886-890: every handle of wasVisible whose ID is not in
\* visible goes to the pool.
RECURSIVE releaseRows(_, _)
releaseRows(s, k) ==
    IF k > Len(s.wasVisible) THEN s
    ELSE releaseRows(
           IF searchVisible(s.visible, s.wasVisible[k].id) = 0
           THEN [s EXCEPT !.itemPool = s.itemPool (+) SetToBag({s.wasVisible[k].item})]
           ELSE s,
           k + 1)

\* Element k of the array arr that a loop ranges over: the backing array of
\* l.visible as it is now, or an array the slice has moved away from.
rangeElem(s, arr, k) ==
    IF s.visCap = NoCap THEN s.visible[k]
    ELSE IF arr = Len(s.oldArrs) + 1 THEN s.visArr[k]
    ELSE s.oldArrs[arr][k]

\* One pass of the loops of lines 901-911.
setupRow(s, newOnly, vis) ==
    IF newOnly /\ searchVisible(s.wasVisible, vis.id) # 0
    THEN s
    ELSE setupListItem(s, vis.item, vis.id, s.focused /\ s.currentFocus = vis.id)

\* The loops of lines 901-911, from pass k on: `range l.visible` has taken
\* the array arr and the length n of l.visible when the loop began, and reads
\* each element when its pass begins.
RECURSIVE setupRows(_, _, _, _, _)
setupRows(s, newOnly, k, n, arr) ==
    IF k > n THEN s
    ELSE setupRows(setupRow(s, newOnly, rangeElem(s, arr, k)),
                   newOnly, k + 1, n, arr)

\* The loops of lines 901-911.
setupVisible(s, newOnly) ==
    setupRows(s, newOnly, 1, Len(s.visible), Len(s.oldArrs) + 1)

\* listLayout.updateSeparators: the row separators are drawing only; the
\* drag separator is updated while a drag is in progress.
updateSeparators(s) ==
    IF s.draggingRow >= 0 THEN updateDragSeparator(s) ELSE s

\* The row IDs of a list of (row ID, handle) pairs.
rowIds(vis) == [k \in 1 .. Len(vis) |-> vis[k].id]

\* The UpdateItem calls of an updateList call that returns, recorded with
\* its argument and the lists it began with.
updateDone(s, newOnly) ==
    [s EXCEPT !.recon = [newOnly |-> newOnly, before |-> s.reconBefore,
                         was |-> s.reconWas,
                         updated |-> SubSeq(s.updated, s.reconMark + 1,
                                            Len(s.updated))]]

\* updateList from line 886 on; a panic in the row loop ends the call.
finishRows(s, newOnly) ==
    IF s.panicked THEN s
    ELSE updateDone(
           [setupVisible(updateSeparators(releaseRows(s, 1)), newOnly)
            EXCEPT !.wasVisible = <<>>],
           newOnly)

\* updateList from line 856 on, calc being the result of
\* calculateVisibleRowHeights.
updateRows(s, calc, newOnly) ==
    IF Len(calc.heights) = 0 /\ s.length > 0
    THEN updateDone(s, newOnly)
    ELSE finishRows(placeRows([s EXCEPT !.children = <<>>], calc, 1), newOnly)

\* Lines 852-855 of updateList.
startUpdate(s) ==
    [s EXCEPT !.wasVisible = s.wasVisible \o s.visible, !.visible = <<>>,
              !.reconBefore = s.visible,
              !.reconWas = s.wasVisible \o s.visible,
              !.reconMark = Len(s.updated)]

\* listLayout.updateList(newOnly)
updateList(s, newOnly) ==
    updateRows(startUpdate(s), calculateVisibleRowHeights(startUpdate(s)), newOnly)

\* Lines 798-800 of offsetUpdated.
offsetChanged(s) ==
    updateList(IF s.draggingRow >= 0 THEN updateDragSeparator(s) ELSE s, TRUE)

\* listLayout.offsetUpdated(pos)
offsetUpdated(s, y) ==
    IF s.offsetY = y THEN s ELSE offsetChanged([s EXCEPT !.offsetY = y])

\* l.offsetUpdated(l.scroller.Offset)
syncOffset(s) == offsetUpdated(s, s.scrollerOffset)

\* ------------------------------------------- the toolkit's scroll container
\* computeOffset of the toolkit's scroller: start + delta, kept within
\* [0, inner - outer].
computeOffset(start, delta, outer, inner) ==
    LET o == start + delta
    IN Max(IF o + outer >= inner THEN inner - outer ELSE o, 0)

\* The scroller's offset becomes new: OnScrolled
\* (= listLayout.offsetUpdated, line 599) is called when it moved.
scrollerMoveTo(s, new) ==
    IF new = s.scrollerOffset
    THEN [s |-> s, moved |-> FALSE]
    ELSE [s |-> offsetUpdated([s EXCEPT !.scrollerOffset = new], new),
          moved |-> TRUE]

\* container.Scroll.updateOffset, moving the offset by d: [s, moved].  When
\* the content fits the viewport the offset is reset to 0 and OnScrolled is
\* not called; otherwise the offset is clamped and OnScrolled is called when
\* it moved.
scrollerUpdateOffset(s, d) ==
    IF s.viewH >= s.contentH
    THEN IF s.scrollerOffset # 0
         THEN [s |-> [s EXCEPT !.scrollerOffset = 0], moved |-> TRUE]
         ELSE [s |-> s, moved |-> FALSE]
    ELSE scrollerMoveTo(s, computeOffset(s.scrollerOffset, d, s.viewH, contentMinSize(s)))

\* Container.Resize of the scroller's content: a new height runs the
\* container's layout, listLayout.Layout (line 774), which is updateList(true).
contentResize(s, h) ==
    IF h = s.contentH THEN s
    ELSE updateList([s EXCEPT !.contentH = h], TRUE)

\* The scroller's renderer lays its content out: the content container is
\* resized to max(MinSize, viewport).
scrollerLayout(s) == contentResize(s, Max(contentMinSize(s), s.viewH))

\* container.Scroll.Refresh
scrollerRefresh(s) == scrollerLayout(scrollerUpdateOffset(s, 0).s)

\* container.Scroll.scrollBy after updateOffset: the content is laid out again
\* when the offset moved.
scrolledBy(r) == IF r.moved THEN scrollerLayout(r.s) ELSE r.s

\* container.Scroll.scrollBy, the offset moving by d
scrollerScrollBy(s, d) == scrolledBy(scrollerUpdateOffset(s, d))

\* container.Scroll.ScrollToBottom
scrollerScrollToBottom(s) ==
    scrollerRefresh(scrollerScrollBy(s, contentMinSize(s) - s.viewH - s.scrollerOffset))

\* container.Scroll.ScrollToTop
scrollerScrollToTop(s) == scrollerRefresh(scrollerScrollBy(s, -s.scrollerOffset))

\* container.Scroll.ScrollToOffset
scrollerScrollToOffset(s, y) ==
    IF s.scrollerOffset = y THEN s
    ELSE scrollerRefresh([s EXCEPT !.scrollerOffset = y])

\* container.Scroll.Resize, called by listRenderer.Layout (line 604)
scrollerResize(s, h) ==
    IF s.viewH = h THEN s
    ELSE scrollerRefresh(scrollerLayout([s EXCEPT !.viewH = h]))

\* ------------------------------------------------------ List and renderer
\* List.CreateRenderer: the scroller exists from here on, with no size yet;
\* layout.Resize(layout.MinSize()) runs listLayout.Layout when the size of
\* the content changes.
CreateRenderer(s) ==
    contentResize([s EXCEPT !.rendered = TRUE, !.draggingRow = -1,
                            !.scrollerOffset = 0],
                  contentMinSize(s))

\* listRenderer.Refresh
rendererRefresh(s) ==
    updateList(
      scrollerRefresh(scrollerResize([s EXCEPT !.nRefresh = s.nRefresh + 1], s.viewH)),
      FALSE)

\* BaseWidget.Refresh of the List (l.Refresh()): the toolkit creates the
\* renderer of a widget that has none, then calls its Refresh.
baseRefresh(s) == rendererRefresh(IF s.rendered THEN s ELSE CreateRenderer(s))

\* Lines 161-165 of RefreshItem: the row's handle, when the row is visible,
\* is set up again.
refreshVisible(s, id, item) ==
    IF item # 0
    THEN setupListItem(s, item, id, s.focused /\ s.currentFocus = id)
    ELSE s

refreshRow(s, id) == refreshVisible(s, id, searchVisible(s.visible, id))

\* List.RefreshItem
RefreshItem(s, id) ==
    IF ~s.rendered THEN s ELSE refreshRow(baseRefresh(s), id)

\* Line 193: l.itemHeights[id] = height
storeHeight(s, id, height) ==
    [s EXCEPT !.itemHeights =
       [i \in DOMAIN s.itemHeights \cup {id} |->
          IF i = id THEN height ELSE s.itemHeights[i]]]

\* A call of RefreshItem from SetItemHeight.  The refreshes one call makes
\* are followed up to RefreshLimit of them.
refreshStored(s, id) ==
    IF s.nRefresh >= RefreshLimit THEN s ELSE RefreshItem(s, id)

\* SetItemHeight with the refresh made whether the stored height changes or
\* not.
SetItemHeightAlways(s, id, height) ==
    refreshStored(storeHeight(s, id, height), id)

\* List.SetItemHeight: a missing map entry reads as 0.
SetItemHeight(s, id, height) ==
    IF (IF id \in DOMAIN s.itemHeights THEN s.itemHeights[id] ELSE 0) # height
    THEN refreshStored(storeHeight(s, id, height), id)
    ELSE storeHeight(s, id, height)

\* The loop of List.scrollTo (lines 210-218): the sum of the pitches of rows
\* i .. id-1.
RECURSIVE rowsAbove(_, _, _)
rowsAbove(s, i, id) ==
    IF i >= id THEN 0
    ELSE RowHeight(s, i) + Padding + rowsAbove(s, i + 1, id)

\* List.scrollTo
scrollTo(s, id) ==
    IF ~s.rendered THEN s
    ELSE LET uniform == DOMAIN s.itemHeights = {}
             y == IF uniform THEN id * ItemMinHeight + id * Padding
                  ELSE rowsAbove(s, 0, id)
             lastItemHeight == IF uniform THEN ItemMinHeight
                               ELSE RowHeight(s, Max(id, 0))
             off == IF y < s.scrollerOffset THEN y
                    ELSE IF y + ItemMinHeight > s.scrollerOffset + s.viewH
                         THEN y + lastItemHeight - s.viewH
                         ELSE s.scrollerOffset
         IN offsetUpdated([s EXCEPT !.scrollerOffset = off], off)

\* List.FocusGained
FocusGained(s) ==
    LET s1 == [s EXCEPT !.focused = TRUE]
    IN RefreshItem(scrollTo(s1, s1.currentFocus), s1.currentFocus)

\* List.FocusLost
FocusLost(s) == RefreshItem([s EXCEPT !.focused = FALSE], s.currentFocus)

\* BaseWidget.Resize of the List: a new size is stored and given to
\* listRenderer.Layout, the renderer being created when there is none.
baseResize(s, h) ==
    IF h = s.viewH THEN s
    ELSE scrollerResize(IF s.rendered THEN s ELSE CreateRenderer(s), h)

\* Lines 236-241 of Resize.
resized(s) ==
    IF ~s.rendered THEN s ELSE updateList(syncOffset(s), TRUE)

\* List.Resize
Resize(s, h) == resized(baseResize(s, h))

\* What the host's OnSelected and OnUnselected callbacks do besides being
\* observed: nothing, or a call of List.Select(id) for one row of the list.
NoCall == [call |-> "none", id |-> 0]
HostCalls ==
    {NoCall} \cup {[call |-> "Select", id |-> k] : k \in 0 .. MaxItems - 1}

RECURSIVE Select(_, _)

\* The body of a host callback: the call it makes on the list.
hostCall(s, c) ==
    IF c.call = "Select" THEN Select(s, c.id) ELSE s

\* The callback the entry names, as the host has set it.
callbackOf(name) ==
    IF name = "OnSelected" THEN OnSelected
    ELSE IF name = "OnUnselected" THEN OnUnselected
    ELSE NoCall

recorded(s, entry) == [s EXCEPT !.log = Append(s.log, entry)]

\* An observer callback is called: it is recorded, then its body runs.
fire(s, entry) == hostCall(recorded(s, entry), callbackOf(entry[1]))

\* The deferred function of Select (lines 257-264).
selectDeferred(s, old, id) ==
    fire(IF Len(old) > 0 THEN fire(s, <<"OnUnselected", old[1]>>) ELSE s,
         <<"OnSelected", id>>)

\* The deferred function with its two callbacks in the other order.
selectDeferredSwapped(s, old, id) ==
    IF Len(old) > 0
    THEN fire(fire(s, <<"OnSelected", id>>), <<"OnUnselected", old[1]>>)
    ELSE fire(s, <<"OnSelected", id>>)

\* Variants of List.Select, each with one defect: the callbacks in the other
\* order, the new ID appended to the old selection, and no range check.
SelectSwapped(s, id) ==
    IF Len(s.selected) > 0 /\ id = s.selected[1] THEN s
    ELSE IF id < 0 \/ id >= s.length THEN s
    ELSE selectDeferredSwapped(
           baseRefresh(scrollTo([s EXCEPT !.selected = <<id>>], id)),
           s.selected, id)

SelectAppend(s, id) ==
    IF Len(s.selected) > 0 /\ id = s.selected[1] THEN s
    ELSE IF id < 0 \/ id >= s.length THEN s
    ELSE selectDeferred(
           baseRefresh(scrollTo([s EXCEPT !.selected = Append(s.selected, id)], id)),
           s.selected, id)

SelectUnchecked(s, id) ==
    IF Len(s.selected) > 0 /\ id = s.selected[1] THEN s
    ELSE selectDeferred(
           baseRefresh(scrollTo([s EXCEPT !.selected = <<id>>], id)),
           s.selected, id)

\* List.Select: the deferred function runs last.
Select(s, id) ==
    IF Len(s.selected) > 0 /\ id = s.selected[1] THEN s
    ELSE IF id < 0 \/ id >= s.length THEN s
    ELSE selectDeferred(
           baseRefresh(scrollTo([s EXCEPT !.selected = <<id>>], id)),
           s.selected, id)

\* A variant of List.ScrollTo without the range check.
ScrollToUnchecked(s, id) == baseRefresh(scrollTo(s, id))

\* List.ScrollTo
ScrollTo(s, id) ==
    IF id < 0 \/ id >= s.length THEN s
    ELSE baseRefresh(scrollTo(s, id))


\* List.ScrollToBottom: l.scroller is dereferenced without a nil check.
ScrollToBottom(s) ==
    IF ~s.rendered THEN panic(s) ELSE syncOffset(scrollerScrollToBottom(s))

\* List.ScrollToTop: l.scroller is dereferenced without a nil check.
ScrollToTop(s) ==
    IF ~s.rendered THEN panic(s) ELSE syncOffset(scrollerScrollToTop(s))

\* List.ScrollToOffset
ScrollToOffset(s, offset) ==
    IF ~s.rendered THEN s
    ELSE IF s.viewH >= contentMinSize(s) THEN s
    ELSE syncOffset(
           scrollerScrollToOffset(s, Min(Max(offset, 0), contentMinSize(s))))

\* List.ItemForID: l.scroller is dereferenced without a nil check; the
\* lookup changes nothing.
ItemForID(s, id) == IF ~s.rendered THEN panic(s) ELSE s

\* Lines 342-344 and 350-352 of TypedKey: the focus has moved to another row.
focusMoved(s) == RefreshItem(scrollTo(s, s.currentFocus), s.currentFocus)

\* Lines 341-344 and 349-352: the focus moves by d rows.
moveFocus(s, d) == focusMoved([s EXCEPT !.currentFocus = s.currentFocus + d])

\* TypedKey without the two boundary tests of lines 340 and 348.
TypedKeyUnguarded(s, key) ==
    IF key = "Space" THEN Select(s, s.currentFocus)
    ELSE IF key = "Down" THEN moveFocus(RefreshItem(s, s.currentFocus), 1)
    ELSE IF key = "Up" THEN moveFocus(RefreshItem(s, s.currentFocus), -1)
    ELSE s

\* List.TypedKey
TypedKey(s, key) ==
    IF key = "Space" THEN Select(s, s.currentFocus)
    ELSE IF key = "Down"
    THEN IF s.currentFocus >= s.length - 1 THEN s
         ELSE moveFocus(RefreshItem(s, s.currentFocus), 1)
    ELSE IF key = "Up"
    THEN IF s.currentFocus <= 0 THEN s
         ELSE moveFocus(RefreshItem(s, s.currentFocus), -1)
    ELSE s

\* List.Unselect
Unselect(s, id) ==
    IF Len(s.selected) = 0 \/ s.selected[1] # id THEN s
    ELSE fire(baseRefresh([s EXCEPT !.selected = <<>>]), <<"OnUnselected", id>>)

\* The loop of lines 386-390 of UnselectAll.
RECURSIVE fireUnselected(_, _)
fireUnselected(s, sel) ==
    IF sel = <<>> THEN s
    ELSE fireUnselected(fire(s, <<"OnUnselected", Head(sel)>>), Tail(sel))

\* List.UnselectAll
UnselectAll(s) ==
    IF Len(s.selected) = 0 THEN s
    ELSE fireUnselected(baseRefresh([s EXCEPT !.selected = <<>>]), s.selected)

\* listItem.Tapped with the tap handler setupListItem installs (lines
\* 824-835): on a desktop the canvas focuses the list, which calls
\* FocusGained when the list did not have the focus.
Tapped(s, li, mobile) ==
    IF s.items[li].onTapped = -1 THEN s
    ELSE LET id == s.items[li].onTapped
             s1 == [s EXCEPT !.items[li].selected = TRUE]
             s2 == IF mobile THEN s1
                   ELSE LET f == IF s1.focused THEN s1 ELSE FocusGained(s1)
                        IN [f EXCEPT !.currentFocus = id]
         IN Select(s2, id)

\* ------------------------------------------------------------- dragging
\* A variant of animationSpeedCurve that does not limit the distance to
\* scrollAccelerateRange.
animationSpeedCurveUnclamped(x) ==
    Max((Abs(x) * Abs(x) * maxScrollSpeed)
          \div (scrollAccelerateRange * scrollAccelerateRange),
        minScrollSpeed)

\* animationSpeedCurve of onRowDragged, truncated to a whole number.
animationSpeedCurve(x) ==
    LET m == Min(Abs(x), scrollAccelerateRange)
    IN Max((m * m * maxScrollSpeed) \div (scrollAccelerateRange * scrollAccelerateRange),
           minScrollSpeed)

\* A variant of listLayout.ensureStartDragAnim that starts an animation at
\* every call.
ensureStartDragAnimAlways(s) ==
    [s EXCEPT !.dragScrollAnim = TRUE, !.animsRunning = @ + 1]

\* listLayout.ensureStartDragAnim: an animation is created and started only
\* when none is recorded.
ensureStartDragAnim(s) ==
    IF ~s.dragScrollAnim
    THEN [s EXCEPT !.dragScrollAnim = TRUE, !.animsRunning = @ + 1]
    ELSE s

\* listLayout.ensureStopDragAnim: the recorded animation is stopped and
\* forgotten.
ensureStopDragAnim(s) ==
    IF s.dragScrollAnim
    THEN [s EXCEPT !.dragScrollAnim = FALSE, !.animsRunning = @ - 1]
    ELSE s

\* Lines 543-554 of onRowDragged: the auto-scroll starts when the pointer is
\* within half a template row of the top or the bottom edge, and stops
\* otherwise.
dragAutoScroll(s) ==
    IF s.dragRelativeY - ItemMinHeight \div 2 < 0
    THEN ensureStartDragAnim(
           [s EXCEPT !.scrollAnimSpeed =
                       -animationSpeedCurve(s.dragRelativeY - ItemMinHeight \div 2)])
    ELSE IF s.dragRelativeY > s.viewH - ItemMinHeight \div 2
    THEN ensureStartDragAnim(
           [s EXCEPT !.scrollAnimSpeed =
                       animationSpeedCurve(s.dragRelativeY
                                           - (s.viewH - ItemMinHeight \div 2))])
    ELSE ensureStopDragAnim(s)

\* Lines 556-558: OnDragBegin fires when this event started the drag.
dragBegun(s, startedDrag) ==
    IF startedDrag THEN fire(s, <<"OnDragBegin", s.draggingRow>>) ELSE s

\* A variant of onRowDragged from line 524 on that records the row of every
\* event as the dragged row.
rowDraggedRebound(s, id, relY) ==
    dragBegun(
      updateDragSeparator(
        dragAutoScroll([s EXCEPT !.draggingRow = id, !.dragRelativeY = relY])),
      s.draggingRow < 0)

\* onRowDragged from line 524 on.
rowDragged(s, id, relY) ==
    dragBegun(
      updateDragSeparator(
        dragAutoScroll(
          [s EXCEPT !.draggingRow = IF s.draggingRow < 0 THEN id ELSE s.draggingRow,
                    !.dragRelativeY = relY])),
      s.draggingRow < 0)

\* A variant of listLayout.onRowDragged without the EnableDragging guard.
onRowDraggedUnguarded(s, id, relY) == rowDragged(s, id, relY)

\* listLayout.onRowDragged(id, e), relY being e.AbsolutePosition.Y - listPos.Y
onRowDragged(s, id, relY) ==
    IF ~s.EnableDragging THEN s ELSE rowDragged(s, id, relY)

\* A variant of listLayout.onDragEnd that leaves the auto-scroll animation
\* running.
onDragEndKeepAnim(s) ==
    fire([s EXCEPT !.draggingRow = -1, !.dragSepHidden = TRUE],
         <<"OnDragEnd", s.draggingRow, s.dragInsertAt>>)

\* listLayout.onDragEnd
onDragEnd(s) ==
    fire([ensureStopDragAnim(s) EXCEPT !.draggingRow = -1, !.dragSepHidden = TRUE],
         <<"OnDragEnd", s.draggingRow, s.dragInsertAt>>)

\* One frame of the animation ensureStartDragAnim starts (line 574):
\* scroller.Scrolled with DY = -scrollAnimSpeed moves the offset by
\* scrollAnimSpeed.
dragAnimTick(s) == scrollerScrollBy(s, s.scrollAnimSpeed)

\* The value of recon in the specifications that do not record the
\* updateList calls.
NoRecon ==
    [newOnly |-> FALSE, before |-> <<[id |-> -1, item |-> 0]>>, was |-> <<>>,
     updated |-> <<>>]

\* ---------------------------------------------------------- state machine
\* The program state as one record; the observations of the last call start
\* empty.
Cur ==
    [length |-> length, EnableDragging |-> EnableDragging,
     currentFocus |-> currentFocus, focused |-> focused, rendered |-> rendered,
     scrollerOffset |-> scrollerOffset, viewH |-> viewH, contentH |-> contentH,
     selected |-> selected, itemHeights |-> itemHeights, offsetY |-> offsetY,
     visible |-> visible, wasVisible |-> wasVisible, children |-> children,
     itemPool |-> itemPool, items |-> items, draggingRow |-> draggingRow,
     dragRelativeY |-> dragRelativeY, dragInsertAt |-> dragInsertAt,
     dragScrollAnim |-> dragScrollAnim, animsRunning |-> animsRunning,
     scrollAnimSpeed |-> scrollAnimSpeed,
     dragSepHidden |-> dragSepHidden, dragSepY2 |-> dragSepY2,
     panicked |-> FALSE, log |-> <<>>, nRefresh |-> 0, pick |-> poolPick,
     CreateItem |-> CreateItem, updateHeight |-> updateHeight,
     visCap |-> visCap, visArr |-> visible, oldArrs |-> <<>>, recon |-> recon, updated |-> <<>>, reconBefore |-> <<>>,
     reconWas |-> <<>>, reconMark |-> 0]

\* The state after a step: r is the record the step returned.
Assign(r, op, id, arg) ==
    /\ length' = r.length
    /\ EnableDragging' = r.EnableDragging
    /\ currentFocus' = r.currentFocus
    /\ focused' = r.focused
    /\ rendered' = r.rendered
    /\ scrollerOffset' = r.scrollerOffset
    /\ viewH' = r.viewH
    /\ contentH' = r.contentH
    /\ selected' = r.selected
    /\ itemHeights' = r.itemHeights
    /\ offsetY' = r.offsetY
    /\ visible' = r.visible
    /\ wasVisible' = r.wasVisible
    /\ children' = r.children
    /\ itemPool' = r.itemPool
    /\ items' = r.items
    /\ draggingRow' = r.draggingRow
    /\ dragRelativeY' = r.dragRelativeY
    /\ dragInsertAt' = r.dragInsertAt
    /\ dragScrollAnim' = r.dragScrollAnim
    /\ animsRunning' = r.animsRunning
    /\ scrollAnimSpeed' = r.scrollAnimSpeed
    /\ dragSepHidden' = r.dragSepHidden
    /\ dragSepY2' = r.dragSepY2
    /\ panicked' = r.panicked
    /\ log' = r.log
    /\ nRefresh' = r.nRefresh
    /\ lastOp' = [op |-> op, id |-> id, arg |-> arg]
    /\ poolPick' = poolPick
    /\ CreateItem' = r.CreateItem
    /\ updateHeight' = r.updateHeight
    /\ visCap' = r.visCap
    /\ UNCHANGED <<OnSelected, OnUnselected>>
    /\ recon' = IF recon = NoRecon THEN recon ELSE r.recon
    /\ UNCHANGED <<calcIn, calcOut>>

\* The state after a call made on the goroutine that runs updateList: the
\* call starts when no updateList call is under way.
Commit(r, op, id, arg) ==
    /\ updatePos = 0
    /\ Assign(r, op, id, arg)
    /\ UNCHANGED updatePos

Picks == {"low", "high"}

\* The inputs and the result of calculateVisibleRowHeights while it is not
\* called on its own.
NoCalcIn ==
    [offsetY |-> 0, viewH |-> 0, itemHeights |-> <<>>,
     itemHeight |-> ItemMinHeight, count |-> 0, padding |-> Padding]
NoCalcOut == [offY |-> 0, minRow |-> 0, heights |-> <<>>]

\* NewList: nothing selected, no overrides, no renderer yet.
InitList ==
    /\ length \in 0 .. MaxItems
    /\ EnableDragging = FALSE
    /\ currentFocus = 0
    /\ focused = FALSE
    /\ rendered = FALSE
    /\ scrollerOffset = 0
    /\ viewH = 0
    /\ contentH = 0
    /\ selected = <<>>
    /\ itemHeights = <<>>
    /\ offsetY = 0
    /\ visible = <<>>
    /\ wasVisible = <<>>
    /\ children = <<>>
    /\ itemPool = EmptyBag
    /\ items = <<>>
    /\ draggingRow = -1
    /\ dragRelativeY = 0
    /\ dragInsertAt = 0
    /\ dragScrollAnim = FALSE
    /\ animsRunning = 0
    /\ scrollAnimSpeed = 0
    /\ dragSepHidden = FALSE
    /\ dragSepY2 = 0
    /\ poolPick \in Picks
    /\ dragHandle = 0
    /\ panicked = FALSE
    /\ log = <<>>
    /\ nRefresh = 0
    /\ lastOp = [op |-> "NewList", id |-> 0, arg |-> 0]
    /\ CreateItem = TRUE
    /\ updatePos = 0

\* The host's UpdateItem callback does not call back into the list.
InitHost ==
    /\ updateHeight = NoHeight /\ visCap = NoCap
    /\ OnSelected = NoCall /\ OnUnselected = NoCall

Init ==
    /\ InitList /\ InitHost
    /\ recon = NoRecon /\ calcIn = NoCalcIn /\ calcOut = NoCalcOut

\* The list after construction with an UpdateItem callback that calls
\* SetItemHeight(id, h) for the row it updates.
InitNested ==
    /\ InitList
    /\ updateHeight \in UpdateHeights
    /\ visCap = 0
    /\ OnSelected = NoCall /\ OnUnselected = NoCall
    /\ recon = NoRecon /\ calcIn = NoCalcIn /\ calcOut = NoCalcOut

\* The list after construction, its updateList calls being recorded.
InitRecon ==
    /\ InitList /\ InitHost
    /\ recon = [newOnly |-> FALSE, before |-> <<>>, was |-> <<>>,
                updated |-> <<>>]
    /\ calcIn = NoCalcIn
    /\ calcOut = NoCalcOut


\* The host's data changes: Length() returns n from now on.
DoSetLength ==
    \E n \in 0 .. MaxItems :
        /\ ~panicked /\ n # length
        /\ Commit([Cur EXCEPT !.length = n], "SetLength", 0, 0)
        /\ UNCHANGED dragHandle

\* The host's data changes and the host refreshes the list, as the listener
\* NewListWithData installs does (line 108).
DoDataChanged ==
    \E n \in 0 .. MaxItems :
        /\ ~panicked /\ n # length
        /\ Commit(baseRefresh([Cur EXCEPT !.length = n]), "DataChanged", 0, 0)
        /\ UNCHANGED dragHandle

\* The host sets List.EnableDragging.
\* The host assigns the public field List.CreateItem.
DoSetCreateItem ==
    \E b \in BOOLEAN :
        /\ ~panicked /\ b # CreateItem
        /\ Commit([Cur EXCEPT !.CreateItem = b], "SetCreateItem", 0, 0)
        /\ UNCHANGED dragHandle

\* listLayout.Layout calls updateList(true): the call up to line 861.  When
\* it takes the early return of line 856-858 the call is over.
DoUpdateBegin ==
    /\ ~panicked /\ rendered /\ updatePos = 0
    /\ IF Len(calculateVisibleRowHeights(startUpdate(Cur)).heights) = 0
          /\ length > 0
       THEN /\ Assign(updateDone(startUpdate(Cur), TRUE), "updateList", 0, 0)
            /\ updatePos' = 0
       ELSE /\ Assign([startUpdate(Cur) EXCEPT !.children = <<>>],
                      "updateList", 0, 0)
            /\ updatePos' = 1
    /\ UNCHANGED dragHandle

\* One pass of the row loop of updateList (line 864-883).
DoUpdateRow ==
    /\ ~panicked /\ updatePos >= 1
    /\ updatePos <= Len(calculateVisibleRowHeights(Cur).heights)
    /\ Assign(placeRow(Cur, calculateVisibleRowHeights(Cur), updatePos),
              "updateList", updatePos, 0)
    /\ updatePos' = updatePos + 1
    /\ UNCHANGED dragHandle

\* updateList from line 886 to its end.
DoUpdateEnd ==
    /\ ~panicked /\ updatePos >= 1
    /\ updatePos > Len(calculateVisibleRowHeights(Cur).heights)
    /\ Assign(finishRows(Cur, TRUE), "updateList", updatePos, 0)
    /\ updatePos' = 0
    /\ UNCHANGED dragHandle

\* List.ItemForID called from another goroutine: nothing keeps it from reading
\* l.visible while updateList rebuilds it.  The read races with the writes of
\* line 852-853 and 881: it sees the slice as it is now or, with the length
\* it had before line 853, the rows the call began with.  arg is the handle
\* it found, 0 for none.
DoItemForIDConcurrent ==
    \E id \in Ids :
        /\ ~panicked /\ rendered
        /\ \E h \in {searchVisible(visible, id)}
                    \cup (IF updatePos = 0 THEN {}
                          ELSE {searchVisible(wasVisible, id)}) :
               Assign(Cur, "ItemForID", id, h)
        /\ UNCHANGED <<updatePos, dragHandle>>

\* List.SetItemHeight with any row ID.
DoSetAnyItemHeight ==
    \E id \in AnyHeightIds, h \in Heights :
        /\ ~panicked
        /\ Commit(SetItemHeight(Cur, id, h), "SetItemHeight", id, h)
        /\ UNCHANGED dragHandle

DoSetEnableDragging ==
    \E b \in BOOLEAN :
        /\ ~panicked /\ b # EnableDragging
        /\ Commit([Cur EXCEPT !.EnableDragging = b], "SetEnableDragging", 0, 0)
        /\ UNCHANGED dragHandle

DoResize ==
    \E h \in ViewHeights :
        /\ ~panicked
        /\ Commit(Resize(Cur, h), "Resize", 0, 0)
        /\ UNCHANGED dragHandle

\* List.Resize to the height of a list that is shown.
DoResizeShown ==
    \E h \in ShownViewHeights :
        /\ ~panicked
        /\ Commit(Resize(Cur, h), "Resize", 0, 0)
        /\ UNCHANGED dragHandle

DoRefresh ==
    /\ ~panicked
    /\ Commit(baseRefresh(Cur), "Refresh", 0, 0)
    /\ UNCHANGED dragHandle

DoSelect ==
    \E id \in Ids :
        /\ ~panicked
        /\ Commit(Select(Cur, id), "Select", id, 0)
        /\ UNCHANGED dragHandle

DoUnselect ==
    \E id \in Ids :
        /\ ~panicked
        /\ Commit(Unselect(Cur, id), "Unselect", id, 0)
        /\ UNCHANGED dragHandle

DoUnselectAll ==
    /\ ~panicked
    /\ Commit(UnselectAll(Cur), "UnselectAll", 0, 0)
    /\ UNCHANGED dragHandle

DoScrollTo ==
    \E id \in Ids :
        /\ ~panicked
        /\ Commit(ScrollTo(Cur, id), "ScrollTo", id, 0)
        /\ UNCHANGED dragHandle

DoScrollToTop ==
    /\ ~panicked
    /\ Commit(ScrollToTop(Cur), "ScrollToTop", 0, 0)
    /\ UNCHANGED dragHandle

DoScrollToBottom ==
    /\ ~panicked
    /\ Commit(ScrollToBottom(Cur), "ScrollToBottom", 0, 0)
    /\ UNCHANGED dragHandle

DoScrollToOffset ==
    \E o \in Offsets :
        /\ ~panicked
        /\ Commit(ScrollToOffset(Cur, o), "ScrollToOffset", 0, 0)
        /\ UNCHANGED dragHandle

DoSetItemHeight ==
    \E id \in HeightIds, h \in Heights :
        /\ ~panicked
        /\ Commit(SetItemHeight(Cur, id, h), "SetItemHeight", id, h)
        /\ UNCHANGED dragHandle

DoRefreshItem ==
    \E id \in Ids :
        /\ ~panicked
        /\ Commit(RefreshItem(Cur, id), "RefreshItem", id, 0)
        /\ UNCHANGED dragHandle

DoItemForID ==
    \E id \in Ids :
        /\ ~panicked
        /\ Commit(ItemForID(Cur, id), "ItemForID", id, 0)
        /\ UNCHANGED dragHandle

\* The space key.
DoKeySpace ==
    /\ ~panicked
    /\ Commit(TypedKey(Cur, "Space"), "Space", 0, 0)
    /\ UNCHANGED dragHandle

\* The up and down keys.
DoKeyNav ==
    \E key \in {"Down", "Up"} :
        /\ ~panicked
        /\ Commit(TypedKey(Cur, key), key, 0, 0)
        /\ UNCHANGED dragHandle

DoFocusGained ==
    /\ ~panicked
    /\ Commit(FocusGained(Cur), "FocusGained", 0, 0)
    /\ UNCHANGED dragHandle

DoFocusLost ==
    /\ ~panicked
    /\ Commit(FocusLost(Cur), "FocusLost", 0, 0)
    /\ UNCHANGED dragHandle

\* The rendered handles: the toolkit delivers pointer events to them.
RenderedHandles == {children[k] : k \in 1 .. Len(children)}

\* A tap on a rendered row.
DoTapped ==
    \E li \in RenderedHandles, mobile \in BOOLEAN :
        /\ ~panicked
        /\ Commit(Tapped(Cur, li, mobile), "Tapped", items[li].onTapped, 0)
        /\ UNCHANGED dragHandle

\* listItem.Dragged: a drag event on a rendered row; a gesture, once begun,
\* stays with its row handle until DragEnd.
DoDragged ==
    \E li \in RenderedHandles, y \in DragYs :
        /\ ~panicked
        /\ dragHandle \in {0, li}
        /\ Commit(onRowDragged(Cur, items[li].id, y), "Dragged", items[li].id, 0)
        /\ dragHandle' = li

\* listItem.DragEnd: the toolkit ends the gesture on the handle it began on.
DoDragEnd ==
    /\ ~panicked
    /\ dragHandle # 0
    /\ Commit(onDragEnd(Cur), "DragEnd", items[dragHandle].id, 0)
    /\ dragHandle' = 0

\* A frame of the auto-scroll animation while it runs.
DoDragAnimTick ==
    /\ ~panicked
    /\ animsRunning > 0
    /\ Commit(dragAnimTick(Cur), "DragAnimTick", 0, 0)
    /\ UNCHANGED dragHandle

Next ==
    \/ DoSetLength
    \/ DoDataChanged
    \/ DoSetEnableDragging
    \/ DoSetCreateItem
    \/ DoResize
    \/ DoRefresh
    \/ DoSelect
    \/ DoUnselect
    \/ DoUnselectAll
    \/ DoScrollTo
    \/ DoScrollToTop
    \/ DoScrollToBottom
    \/ DoScrollToOffset
    \/ DoSetItemHeight
    \/ DoRefreshItem
    \/ DoItemForID
    \/ DoKeySpace
    \/ DoKeyNav
    \/ DoFocusGained
    \/ DoFocusLost
    \/ DoTapped
    \/ DoDragged
    \/ DoDragEnd
    \/ DoDragAnimTick
    \/ DoSetAnyItemHeight
    \/ DoResizeShown
    \/ DoUpdateBegin
    \/ DoUpdateRow
    \/ DoUpdateEnd
    \/ DoItemForIDConcurrent

Spec == Init /\ [][Next]_vars

\* The selection calls on a list of a fixed length.
NextSel ==
    \/ DoResize
    \/ DoSelect
    \/ DoUnselect
    \/ DoUnselectAll
    \/ DoKeySpace
    \/ DoTapped

SpecSel == Init /\ [][NextSel]_vars

\* The scrolling calls on a list of uniform rows whose length changes.
NextScrollTo ==
    \/ DoDataChanged
    \/ DoResize
    \/ DoScrollTo
    \/ DoScrollToOffset

SpecScrollTo == Init /\ [][NextScrollTo]_vars

\* Data changes, resizing, scrolling and refreshing, the updateList calls
\* being recorded.
NextRecon ==
    \/ DoDataChanged
    \/ DoResize
    \/ DoRefresh
    \/ DoScrollToOffset

SpecRecon == InitRecon /\ [][NextRecon]_vars

\* Resizing, scrolling and height overrides, the updateList calls being
\* recorded.
NextReconHeights ==
    \/ DoResize
    \/ DoScrollToOffset
    \/ DoSetItemHeight

SpecReconHeights == InitRecon /\ [][NextReconHeights]_vars

\* Data changes, resizing and scrolling while the host sets and clears the
\* item factory.
NextFactory ==
    \/ DoSetCreateItem
    \/ DoDataChanged
    \/ DoResize
    \/ DoScrollToOffset

SpecFactory == Init /\ [][NextFactory]_vars

\* updateList running row by row while another goroutine calls ItemForID.
NextConcurrent ==
    \/ DoDataChanged
    \/ DoResize
    \/ DoScrollToOffset
    \/ DoUpdateBegin
    \/ DoUpdateRow
    \/ DoUpdateEnd
    \/ DoItemForIDConcurrent

SpecConcurrent == Init /\ [][NextConcurrent]_vars

\* Data changes and resizing with height overrides for any row ID.
NextHeights ==
    \/ DoDataChanged
    \/ DoResize
    \/ DoSetAnyItemHeight

SpecHeights == Init /\ [][NextHeights]_vars

\* Data changes, resizing, scrolling and refreshing with an UpdateItem
\* callback that sets the height of its row.
NextNested ==
    \/ DoDataChanged
    \/ DoResizeShown
    \/ DoRefresh
    \/ DoScrollToOffset

SpecNested == InitNested /\ [][NextNested]_vars

\* The scrolling calls on a list whose length and row heights change.
NextScroll ==
    \/ DoDataChanged
    \/ DoResize
    \/ DoSetItemHeight
    \/ DoScrollTo
    \/ DoScrollToTop
    \/ DoScrollToBottom
    \/ DoScrollToOffset
    \/ DoItemForID
    \/ DoKeyNav

SpecScroll == Init /\ [][NextScroll]_vars

\* The drag gesture on a list of a fixed length.
NextDrag ==
    \/ DoResize
    \/ DoSetEnableDragging
    \/ DoDragged
    \/ DoDragEnd
    \/ DoDragAnimTick

SpecDrag == Init /\ [][NextDrag]_vars

\* Drag gestures while the host's data changes: the rows leave and re-enter
\* the list, so that the handles are recycled during a gesture.
NextDragData ==
    \/ DoDataChanged
    \/ DoResize
    \/ DoSetEnableDragging
    \/ DoDragged
    \/ DoDragEnd

SpecDragData == Init /\ [][NextDragData]_vars

\* Drag gestures on a list whose row heights are overridden.
NextDragHeights ==
    \/ DoResize
    \/ DoSetEnableDragging
    \/ DoSetItemHeight
    \/ DoDragged
    \/ DoDragEnd

SpecDragHeights == Init /\ [][NextDragHeights]_vars

\* The triggers of listLayout.updateList: Resize, Refresh, scrolling and
\* changes of row heights, on lists of 0 .. MaxItems rows.
NextLayout ==
    \/ DoResize
    \/ DoRefresh
    \/ DoScrollToOffset
    \/ DoSetItemHeight

SpecLayout == Init /\ [][NextLayout]_vars

\* ------------------------------------ calculateVisibleRowHeights on its own
\* The function is applied to lists of up to MaxCalcItems rows with any
\* overrides from Heights, template heights and paddings from the sets below
\* and every viewport height in 1 .. MaxViewH, and to the list of 1000
\* uniform rows of height 30 without padding in a viewport of height 300.
MaxCalcItems == 4
CalcItemHeights == {ItemMinHeight, ItemMinHeight + 1}
CalcPaddings == {0, Padding}
CalcOverrides(n) == UNION {[D -> Heights] : D \in SUBSET (0 .. n - 1)}
LongList ==
    [offsetY |-> 0, viewH |-> 300, itemHeights |-> <<>>,
     itemHeight |-> 30, count |-> 1000, padding |-> 0]

\* The top of row i of the list calcIn describes (i = count: the end of the
\* list plus the padding), and the height of its content.
RECURSIVE calcRowsAbove(_, _)
calcRowsAbove(c, i) ==
    IF i <= 0 THEN 0
    ELSE IF DOMAIN c.itemHeights = {} THEN i * (c.itemHeight + c.padding)
    ELSE (IF i - 1 \in DOMAIN c.itemHeights THEN c.itemHeights[i - 1]
          ELSE c.itemHeight)
         + c.padding + calcRowsAbove(c, i - 1)
calcContentHeight(c) == calcRowsAbove(c, c.count) - c.padding

\* The offsets the scroller can be at: 0 .. content height - viewport height.
CalcOffsets(c) ==
    IF c.count > MaxCalcItems THEN {0, 315}
    ELSE 0 .. Max(0, calcContentHeight(c) - c.viewH)

InitCalc ==
    /\ InitList /\ InitHost /\ length = 0 /\ poolPick = "low"
    /\ recon = NoRecon
    /\ calcOut = NoCalcOut
    /\ \/ calcIn = LongList
       \/ \E ih \in CalcItemHeights, p \in CalcPaddings, n \in 0 .. MaxCalcItems,
             v \in 1 .. MaxViewH :
             \E h \in CalcOverrides(n) :
                 calcIn = [offsetY |-> 0, viewH |-> v, itemHeights |-> h,
                           itemHeight |-> ih, count |-> n, padding |-> p]

\* calculateVisibleRowHeights(itemHeight, length, th) at offset o.
DoCalculate ==
    \E o \in CalcOffsets(calcIn) :
        /\ calcIn' = [calcIn EXCEPT !.offsetY = o]
        /\ calcOut' = visibleRowHeights([calcIn EXCEPT !.offsetY = o],
                                       calcIn.itemHeight, calcIn.count,
                                       calcIn.padding)
        /\ lastOp' = [op |-> "calculateVisibleRowHeights", id |-> 0, arg |-> o]
        /\ UNCHANGED <<length, EnableDragging, currentFocus, focused, rendered,
                       scrollerOffset, viewH, contentH, selected, itemHeights,
                       offsetY, visible, wasVisible, children, itemPool, items,
                       draggingRow, dragRelativeY, dragInsertAt, dragScrollAnim,
                       animsRunning, scrollAnimSpeed, dragSepHidden, dragSepY2,
                       poolPick, dragHandle, panicked, log, nRefresh,
                       CreateItem, updateHeight, visCap, updatePos, recon,
                       OnSelected, OnUnselected>>

NextCalc == DoCalculate

SpecCalc == InitCalc /\ [][NextCalc]_vars

\* ------------------------------------------------------------ properties
\* The argument of the last call is a row the list has.
LastIdValid == lastOp.id >= 0 /\ lastOp.id < length

\* C1: when row a is selected and Select(b) is called with a valid b other
\* than a, the callbacks of that call are exactly OnUnselected(a) followed by
\* OnSelected(b).
C1_UnselectBeforeSelect ==
    [][(/\ lastOp'.op = "Select"
        /\ Len(selected) = 1
        /\ lastOp'.id >= 0 /\ lastOp'.id < length
        /\ lastOp'.id # selected[1])
       => log' = << <<"OnUnselected", selected[1]>>, <<"OnSelected", lastOp'.id>> >>]_vars

\* A Select call has replaced a selected row by another one.
C1_Witness ==
    /\ lastOp.op = "Select"
    /\ LastIdValid
    /\ Len(log) = 2
    /\ log[1][1] = "OnUnselected" /\ log[1][2] # lastOp.id
    /\ log[2] = <<"OnSelected", lastOp.id>>

\* C2: at most one row ID is selected in every reachable state, and after a
\* Select(b) or a tap on row b with a valid b the selection is exactly b.
C2_SingleSelection ==
    /\ Len(selected) <= 1
    /\ (lastOp.op \in {"Select", "Tapped"} /\ LastIdValid) => selected = <<lastOp.id>>

\* A tap has moved the selection from one row to another.
C2_Witness ==
    /\ lastOp.op = "Tapped"
    /\ LastIdValid
    /\ selected = <<lastOp.id>>
    /\ Len(log) = 2

\* C3: Select(id) with id < 0 or id >= Length() changes neither the
\* selection, the scroll offset nor the visible rows, and fires no callback.
C3_SelectOutOfRangeIgnored ==
    [][(lastOp'.op = "Select" /\ (lastOp'.id < 0 \/ lastOp'.id >= length))
       => /\ selected' = selected
          /\ offsetY' = offsetY
          /\ scrollerOffset' = scrollerOffset
          /\ visible' = visible
          /\ log' = <<>>]_vars

\* Select was called with an ID past the end on a rendered list that shows
\* rows and has a selection.
C3_Witness ==
    /\ lastOp.op = "Select"
    /\ lastOp.id >= length
    /\ rendered
    /\ Len(visible) > 0
    /\ Len(selected) = 1

\* C4: ScrollTo(id) with id < 0 or id >= Length() changes neither the scroll
\* offset nor the visible rows and performs no refresh.
C4_ScrollToOutOfRangeIgnored ==
    [][(lastOp'.op = "ScrollTo" /\ (lastOp'.id < 0 \/ lastOp'.id >= length))
       => /\ offsetY' = offsetY
          /\ scrollerOffset' = scrollerOffset
          /\ visible' = visible
          /\ nRefresh' = 0]_vars

\* ScrollTo was called with a negative ID on a rendered list that shows rows.
C4_Witness ==
    /\ lastOp.op = "ScrollTo"
    /\ lastOp.id < 0
    /\ rendered
    /\ Len(visible) > 0
    /\ nRefresh = 0

\* C10: while EnableDragging is false a drag event on a row records no drag
\* source, starts no auto-scroll, leaves the insertion index and the
\* indicator alone and fires no OnDragBegin.
C10_DragIgnoredWhenDisabled ==
    [][(lastOp'.op = "Dragged" /\ ~EnableDragging')
       => /\ draggingRow' = draggingRow
          /\ dragScrollAnim' = dragScrollAnim
          /\ scrollAnimSpeed' = scrollAnimSpeed
          /\ dragInsertAt' = dragInsertAt
          /\ dragSepHidden' = dragSepHidden
          /\ dragSepY2' = dragSepY2
          /\ log' = <<>>]_vars

\* A drag event arrived on a rendered row while dragging was disabled and no
\* drag was in progress.
C10_Witness ==
    /\ lastOp.op = "Dragged"
    /\ ~EnableDragging
    /\ draggingRow < 0
    /\ ~dragScrollAnim
    /\ log = <<>>

\* The top of row id in the content, and whether the row lies fully within
\* the window [off, off + viewH].
RowTop(id) == rowsAbove(Cur, 0, id)
RowWithin(id, off) ==
    /\ RowTop(id) >= off
    /\ RowTop(id) + RowHeight(Cur, id) <= off + viewH

\* C5: after ScrollTo(id) with a valid id on a rendered list whose viewport
\* is at least as tall as row id, the row lies fully within
\* [offset, offset + viewport height].
C5_ScrollToShowsRow ==
    [][(/\ lastOp'.op = "ScrollTo"
        /\ lastOp'.id >= 0 /\ lastOp'.id < length
        /\ rendered
        /\ viewH >= RowHeight(Cur, lastOp'.id))
       => RowWithin(lastOp'.id, offsetY')]_vars

\* C6: ScrollTo(id) on a row that already lies fully within the viewport
\* leaves the offset unchanged; on any other row that fits the viewport the
\* offset becomes the row's top (row above the window) or the row's bottom
\* less the viewport height (row below it).
C6_ScrollToMinimal ==
    [][(/\ lastOp'.op = "ScrollTo"
        /\ lastOp'.id >= 0 /\ lastOp'.id < length
        /\ rendered
        /\ offsetY = scrollerOffset
        /\ viewH >= RowHeight(Cur, lastOp'.id))
       => IF RowWithin(lastOp'.id, offsetY)
          THEN offsetY' = offsetY
          ELSE IF RowTop(lastOp'.id) < offsetY
          THEN offsetY' = RowTop(lastOp'.id)
          ELSE offsetY' = RowTop(lastOp'.id) + RowHeight(Cur, lastOp'.id) - viewH]_vars

\* The content container has been laid out for the current rows: its height
\* is max(contentMinSize, viewport height).
LayoutReconciled == rendered /\ contentH = Max(contentMinSize(Cur), viewH)

\* C7: in every reachable state of a rendered list with a viewport of
\* positive height, once the layout has been reconciled with the item count
\* and the row heights, the scroll offset lies in
\* [0, max(0, content height - viewport height)].
C7_OffsetClamped ==
    (LayoutReconciled /\ viewH > 0)
    => /\ offsetY >= 0
       /\ offsetY <= Max(0, contentMinSize(Cur) - viewH)

\* C8: on a rendered list a SetItemHeight(id, height) that changes the
\* effective height of row id stores the override and refreshes the list.
C8_SetItemHeightRelayouts ==
    [][(/\ lastOp'.op = "SetItemHeight"
        /\ rendered
        /\ RowHeight(Cur, lastOp'.id) # lastOp'.arg)
       => /\ lastOp'.id \in DOMAIN itemHeights'
          /\ itemHeights'[lastOp'.id] = lastOp'.arg
          /\ nRefresh' > 0]_vars

\* C9: no public operation panics, in any reachable state.
C9_NoPanic == ~panicked

\* C11: in a gesture with dragging enabled, the drag-move event that finds no
\* drag in progress fires OnDragBegin once with the row it was delivered for
\* and records that row; every later drag-move event fires nothing and leaves
\* the recorded row alone, whatever row it is delivered for; and nothing but
\* the end of the gesture changes the recorded row.
C11_DragBeginOnce ==
    [][/\ (lastOp'.op = "Dragged" /\ EnableDragging)
           => IF draggingRow < 0
              THEN /\ log' = << <<"OnDragBegin", lastOp'.id>> >>
                   /\ draggingRow' = lastOp'.id
              ELSE /\ log' = <<>>
                   /\ draggingRow' = draggingRow
       /\ (draggingRow >= 0 /\ lastOp'.op # "DragEnd")
           => draggingRow' = draggingRow]_vars

\* A later drag-move event of a gesture was delivered for another row than
\* the one the drag started on.
C11_Witness ==
    /\ lastOp.op = "Dragged" /\ EnableDragging
    /\ draggingRow >= 0 /\ lastOp.id # draggingRow
    /\ log = <<>>

\* C12: when a drag in progress ends, OnDragEnd is called exactly once with
\* the source row and the insertion index, and afterwards no drag is in
\* progress, no auto-scroll animation runs and the insertion indicator is
\* hidden.
C12_DragEndResets ==
    [][(lastOp'.op = "DragEnd" /\ draggingRow >= 0)
       => /\ log' = << <<"OnDragEnd", draggingRow, dragInsertAt>> >>
          /\ draggingRow' = -1
          /\ ~dragScrollAnim' /\ animsRunning' = 0
          /\ dragSepHidden']_vars

\* A drag ended whose last pointer position was far below the list, where
\* the auto-scroll runs at full speed, with an insertion index below row 0.
C12_Witness ==
    /\ lastOp.op = "DragEnd" /\ EnableDragging
    /\ Len(log) = 1 /\ log[1][1] = "OnDragEnd" /\ log[1][2] >= 0 /\ log[1][3] > 0
    /\ dragRelativeY > viewH /\ scrollAnimSpeed = maxScrollSpeed
    /\ draggingRow = -1 /\ ~dragScrollAnim /\ dragSepHidden

\* C13: the insertion index passed to OnDragEnd lies within 0 .. item count,
\* for the item count at the time of the drop.
C13_InsertIndexInRange ==
    [][lastOp'.op = "DragEnd"
       => \A k \in 1 .. Len(log') :
              log'[k][1] = "OnDragEnd" => log'[k][3] \in 0 .. length']_vars

\* The position of the pointer of the last drag-move event within the
\* content, and the row boundaries nearest to it; boundary b is the top of
\* row b, and boundary length the end of the last row.
DragPointerY == Min(Max(dragRelativeY, 0), viewH) + offsetY
NearestBoundaries ==
    {b \in 0 .. length :
        \A c \in 0 .. length :
            Abs(RowTop(b) - DragPointerY) <= Abs(RowTop(c) - DragPointerY)}

\* C14: when a drag that started on row s ends right after a drag-move event,
\* OnDragEnd is called with s and the row boundary nearest to the pointer of
\* that event, with or without overridden row heights.
C14_DropAtNearestBoundary ==
    [][(/\ lastOp.op = "Dragged" /\ lastOp'.op = "DragEnd"
        /\ EnableDragging /\ draggingRow >= 0 /\ viewH > 0)
       => \E b \in NearestBoundaries :
              log' = << <<"OnDragEnd", draggingRow, b>> >>]_vars

\* The pointer of the last drag-move event is less than half a template row
\* away from the top or the bottom edge of the list, or beyond that edge.
InDragBand ==
    \/ 2 * dragRelativeY < ItemMinHeight
    \/ 2 * (viewH - dragRelativeY) < ItemMinHeight

\* C15: at most one auto-scroll animation runs at any time, and after every
\* drag-move event of an enabled drag it runs exactly when the pointer is
\* within the band at the top or the bottom edge.
C15_AutoScrollIffInBand ==
    /\ animsRunning = (IF dragScrollAnim THEN 1 ELSE 0)
    /\ (lastOp.op = "Dragged" /\ EnableDragging)
       => /\ draggingRow >= 0
          /\ dragScrollAnim <=> InDragBand

\* A later drag-move event of a gesture, within the band at the bottom edge
\* inside the list, with the animation running.
C15_Witness ==
    /\ lastOp.op = "Dragged" /\ EnableDragging /\ log = <<>>
    /\ dragRelativeY > 0 /\ dragRelativeY <= viewH /\ InDragBand
    /\ dragScrollAnim /\ animsRunning = 1

\* The distance of the pointer of the last drag-move event from the line
\* half a template row inside the top edge (when above it), or else from the
\* line half a template row inside the bottom edge, in half units.
InTopBand == 2 * dragRelativeY < ItemMinHeight
BandDistance2 ==
    IF InTopBand THEN ItemMinHeight - 2 * dragRelativeY
    ELSE 2 * dragRelativeY - (2 * viewH - ItemMinHeight)

\* C16: after every drag-move event of an enabled drag within a band, the
\* scroll speed is negative in the top band and positive in the bottom band,
\* its magnitude is within minScrollSpeed .. maxScrollSpeed, and it is
\* maxScrollSpeed at a distance of scrollAccelerateRange or more.
C16_ScrollSpeedBounded ==
    (lastOp.op = "Dragged" /\ EnableDragging /\ InDragBand)
    => /\ Abs(scrollAnimSpeed) \in minScrollSpeed .. maxScrollSpeed
       /\ InTopBand => scrollAnimSpeed < 0
       /\ ~InTopBand => scrollAnimSpeed > 0
       /\ BandDistance2 >= 2 * scrollAccelerateRange
          => Abs(scrollAnimSpeed) = maxScrollSpeed

\* A drag-move event more than scrollAccelerateRange below the bottom band
\* set the speed to maxScrollSpeed.
C16_Witness ==
    /\ lastOp.op = "Dragged" /\ EnableDragging /\ InDragBand /\ ~InTopBand
    /\ BandDistance2 > 2 * scrollAccelerateRange
    /\ scrollAnimSpeed = maxScrollSpeed /\ dragScrollAnim

\* The rows calculateVisibleRowHeights returned, and the geometry of row i of
\* the list it was called on.
CalcDone == lastOp.op = "calculateVisibleRowHeights"
CalcRows == calcOut.minRow .. calcOut.minRow + Len(calcOut.heights) - 1
CalcRowTop(i) == calcRowsAbove(calcIn, i)
CalcRowBottom(i) ==
    CalcRowTop(i) + (IF i \in DOMAIN calcIn.itemHeights THEN calcIn.itemHeights[i]
                     ELSE calcIn.itemHeight)
CalcWindowBottom == calcIn.offsetY + calcIn.viewH

\* C18: for every offset in 0 .. content height - viewport height, every
\* positive viewport height and item count, with and without overridden
\* heights, every row that intersects the window
\* [offset, offset + viewport height] is among the rows returned.
C18_WindowCovered ==
    CalcDone
    => \A i \in 0 .. calcIn.count - 1 :
           (CalcRowTop(i) < CalcWindowBottom /\ CalcRowBottom(i) > calcIn.offsetY)
           => i \in CalcRows

\* A list with an overridden height scrolled into the middle of a row, with a
\* row cut by the top edge and another cut by the bottom edge of the window.
C18_Witness ==
    /\ CalcDone /\ DOMAIN calcIn.itemHeights # {} /\ calcIn.offsetY > 0
    /\ \E i, j \in CalcRows :
           /\ i < j
           /\ CalcRowTop(i) < calcIn.offsetY /\ CalcRowBottom(i) > calcIn.offsetY
           /\ CalcRowTop(j) < CalcWindowBottom /\ CalcRowBottom(j) > CalcWindowBottom
           /\ j < calcIn.count - 1

\* C19: the rows returned are minimal: none lies entirely above the window
\* or has its top at or below offset + viewport height, and at most one is
\* cut by the top edge and at most one by the bottom edge.
C19_RangeMinimal ==
    CalcDone
    => /\ \A i \in CalcRows :
              CalcRowTop(i) < CalcWindowBottom /\ CalcRowBottom(i) >= calcIn.offsetY
       /\ Cardinality({i \in CalcRows : CalcRowTop(i) < calcIn.offsetY
                                        /\ CalcRowBottom(i) > calcIn.offsetY}) <= 1
       /\ Cardinality({i \in CalcRows : CalcRowTop(i) < CalcWindowBottom
                                        /\ CalcRowBottom(i) > CalcWindowBottom}) <= 1

\* C20: in the list of 1000 uniform rows of pitch 30 with a viewport of
\* height 300, the rows returned at offset 0 are 0 .. 9 and the rows returned
\* at offset 315 are 10 .. 20.
C20_LongListRanges ==
    (CalcDone /\ calcIn.count = 1000)
    => /\ calcIn.offsetY = 0 => CalcRows = 0 .. 9
       /\ calcIn.offsetY = 315 => CalcRows = 10 .. 20

C21_VisibleWithinRange ==
    \A k \in 1 .. Len(visible) : visible[k].id \in 0 .. length - 1

\* The item count changed and all rows of the list are shown in a viewport
\* that has room for more rows than the list has.
C21_Witness ==
    /\ lastOp.op = "DataChanged" /\ length >= 1 /\ Len(visible) = length
    /\ viewH > length * (ItemMinHeight + Padding)

\* The handle bound to row id in the visible set vis, or 0.
HandleOf(vis, id) ==
    IF \E k \in 1 .. Len(vis) : vis[k].id = id
    THEN vis[CHOOSE k \in 1 .. Len(vis) : vis[k].id = id].item
    ELSE 0

\* C22: a row that is in the visible set before and after an updateList call
\* keeps its handle, and that handle is not in the pool afterwards.
C22_HandleKept ==
    \A id \in 0 .. MaxItems - 1 :
        (HandleOf(recon.before, id) # 0 /\ HandleOf(visible, id) # 0)
        => /\ HandleOf(visible, id) = HandleOf(recon.before, id)
           /\ ~BagIn(HandleOf(visible, id), itemPool)

\* The list was scrolled by less than a row: the last updateList call began
\* with two visible rows and ended with two.
C22_Witness ==
    /\ lastOp.op = "ScrollToOffset" /\ offsetY = 1
    /\ Len(recon.before) >= 2 /\ Len(visible) >= 2

\* The number of rows of the visible set that handle h is bound to.
BoundRows(h) == Cardinality({k \in 1 .. Len(visible) : visible[k].item = h})

\* C23: every handle constructed is bound to exactly one row of the visible
\* set or is held in the pool exactly once.
C23_PoolConservation ==
    \A h \in 1 .. Len(items) : BoundRows(h) + CopiesIn(h, itemPool) = 1

\* C24: when the viewport height is zero or negative the visible set is
\* empty and no row handle is among the children of the scroll content.
C24_NothingRenderedWithoutViewport ==
    (rendered /\ viewH <= 0) => (visible = <<>> /\ children = <<>>)


\* The number of UpdateItem calls the last updateList call made for row id.
UpdateCount(id) ==
    Cardinality({k \in 1 .. Len(recon.updated) : recon.updated[k] = id})

VisibleIds == {visible[k].id : k \in 1 .. Len(visible)}

\* C25: an updateList call made for scrolling, resizing or layout calls
\* UpdateItem exactly once for each row that entered the visible set and not
\* at all for the rows that were visible before it; an updateList call made
\* for Refresh calls UpdateItem exactly once for every visible row.
C25_SelectiveRebinding ==
    \A id \in -1 .. MaxItems :
        UpdateCount(id) =
            IF /\ id \in VisibleIds
               /\ \/ ~recon.newOnly
                  \/ \A k \in 1 .. Len(recon.before) : recon.before[k].id # id
            THEN 1 ELSE 0


\* C26: every (row ID, handle) pair of the visible set has a handle whose id
\* is that row ID and whose tap handler selects that row ID, also when the
\* handle was taken from the pool after it was bound to another row.
C26_NoStaleIdentity ==
    \A k \in 1 .. Len(visible) :
        /\ items[visible[k].item].id = visible[k].id
        /\ items[visible[k].item].onTapped = visible[k].id

\* Row 0 is bound to the handle that was constructed for row 1.
C26_Witness ==
    /\ lastOp.op = "DataChanged"
    /\ Len(visible) >= 1
    /\ visible[1] = [id |-> 0, item |-> 2]


\* C27: a call that has to acquire a handle while the pool is empty and no
\* item factory (CreateItem) is configured does not fail: the row is skipped
\* and the call returns.
C27_NoFactoryNoPanic == ~CreateItem => ~panicked


\* The handle of row id in the visible set the updateList call under way
\* began with, and in the visible set it will end with.
HandleBeforeUpdate(id) ==
    IF updatePos = 0 THEN searchVisible(visible, id)
    ELSE searchVisible(wasVisible, id)

HandleAfterUpdate(id) ==
    IF updatePos = 0 THEN searchVisible(visible, id)
    ELSE searchVisible(
           placeRows(Cur, calculateVisibleRowHeights(Cur), updatePos).visible, id)

\* C28: an ItemForID call that runs next to an updateList call never observes
\* a partly rebuilt visible set: what it finds for a row is what the visible
\* set held for that row before the updateList call or what it holds after it.
C28_LookupSeesWholeSet ==
    [][lastOp'.op = "ItemForID"
         => lastOp'.arg \in {HandleBeforeUpdate(lastOp'.id),
                             HandleAfterUpdate(lastOp'.id)}]_vars


\* The height of row id: its override when the table has one, the template
\* height otherwise.
EffectiveHeight(id) ==
    IF id \in DOMAIN itemHeights THEN itemHeights[id] ELSE ItemMinHeight

RECURSIVE SumEffective(_)
SumEffective(n) ==
    IF n = 0 THEN 0 ELSE SumEffective(n - 1) + EffectiveHeight(n - 1)

\* C29: for every item count n >= 1 and every table of height overrides, the
\* content height is the sum of the effective heights of rows 0 .. n-1 plus
\* the padding between them; overrides for IDs outside 0 .. n-1 add nothing.
C29_ContentHeight ==
    length >= 1 =>
        contentMinSize(Cur) = SumEffective(length) + Padding * (length - 1)


\* A list of row IDs in strictly ascending order.
Ascending(ids) == \A j, k \in 1 .. Len(ids) : j < k => ids[j] < ids[k]

\* The lists searchVisible is called with are in strictly ascending order of
\* row IDs.
SearchedListsAscending ==
    /\ Ascending(rowIds(visible))
    /\ Ascending(rowIds(wasVisible))
    /\ Ascending(rowIds(recon.was))

\* C30: the lists searchVisible is called with, l.visible and l.wasVisible,
\* are in strictly ascending order of row IDs, and at the start of every
\* updateList call l.wasVisible holds a copy of the visible set the call
\* began with.
C30_SearchedListsSorted ==
    /\ SearchedListsAscending
    /\ recon.was = recon.before


\* C31: with an UpdateItem callback that calls SetItemHeight for its row, no
\* handle is bound to two rows of the visible set, no handle is in the pool
\* more than once, and no handle is both in the pool and in the visible set.
C31_HandlesUnique ==
    /\ \A j, k \in 1 .. Len(visible) :
           j # k => visible[j].item # visible[k].item
    /\ \A h \in 1 .. Len(items) : CopiesIn(h, itemPool) <= 1
    /\ \A k \in 1 .. Len(visible) : ~BagIn(visible[k].item, itemPool)


\* C32: with an UpdateItem callback that sets a fixed height for its row, the
\* refreshes nested in one Refresh or SetItemHeight call end on their own:
\* SetItemHeight refreshes only when the stored height changes, so a call
\* makes at most one refresh of its own and one for each row, fewer than the
\* model follows.
C32_NestedRefreshesEnd == nRefresh <= length + 1 /\ nRefresh < RefreshLimit

\* A data change showed a row whose height was not stored yet: the refresh it
\* made ran a second refresh inside, and both returned.
C32_Witness ==
    /\ lastOp.op = "DataChanged"
    /\ updateHeight # NoHeight
    /\ nRefresh >= 2
    /\ \A k \in 1 .. Len(visible) :
           /\ visible[k].id \in DOMAIN itemHeights
           /\ itemHeights[visible[k].id] = updateHeight


\* C33: every OnDragEnd(from, to) callback ends a drag in progress, one that
\* OnDragBegin(from) began and no OnDragEnd has ended yet, so that from is a
\* row ID (>= 0); a drag-end event that arrives when no drag is in progress
\* fires no OnDragEnd.
C33_DragEndAfterBegin ==
    [][\A k \in 1 .. Len(log') :
           log'[k][1] = "OnDragEnd"
           => /\ draggingRow >= 0
              /\ log'[k][2] = draggingRow]_vars


\* The override tables that affect no row of the list calculateVisibleRowHeights
\* is called for: not empty, the overrides of rows of the list equal to the
\* template height, the others for IDs from the item count on.
StaleOverrides ==
    {h \in UNION {[D -> Heights \cup {calcIn.itemHeight}] :
                    D \in SUBSET (0 .. Min(calcIn.count, MaxCalcItems)
                                  \cup {calcIn.count, calcIn.count + 1})} :
        /\ DOMAIN h # {}
        /\ \A id \in DOMAIN h : id < calcIn.count => h[id] = calcIn.itemHeight}

\* C34: for the same offset, viewport height, item count and padding, a list
\* with an empty override table (uniform path) and a list whose overrides
\* affect no row (variable path) get the same first visible index, the same
\* visible rows and the same position of the first row.
C34_PathsEquivalent ==
    (CalcDone /\ DOMAIN calcIn.itemHeights = {})
    => \A h \in StaleOverrides :
           visibleRowHeights([calcIn EXCEPT !.itemHeights = h],
                             calcIn.itemHeight, calcIn.count, calcIn.padding)
           = calcOut


\* ---------------------------------------------------------------------
\* Keyboard focus with a constant item count: the rendered list receives
\* up/down keys, taps on its rows and focus events; Length never changes.
NextFocus ==
    \/ DoResize
    \/ DoKeyNav
    \/ DoTapped
    \/ DoFocusGained
    \/ DoFocusLost

SpecFocus == Init /\ [][NextFocus]_vars

\* The key event just handled found the focus at the boundary it moves to.
KeyAtBoundary ==
    \/ lastOp'.op = "Down" /\ currentFocus = length - 1
    \/ lastOp'.op = "Up" /\ currentFocus = 0

\* Claim C35: with a constant item count n >= 1 the focus index stays in
\* [0, n-1] after every up/down key, row tap and focus event, and a down
\* key at row n-1 or an up key at row 0 changes nothing: no refresh, no
\* callback, and focus, scroll position, selection and rows as before.
C35_FocusInRange ==
    [][length >= 1 =>
        /\ currentFocus' \in 0 .. length' - 1
        /\ KeyAtBoundary =>
            /\ nRefresh' = 0 /\ log' = <<>>
            /\ UNCHANGED <<currentFocus, focused, offsetY, scrollerOffset,
                           selected, visible, items, itemPool>>]_vars

\* The down key was pressed with the focus on the last of two rows of a
\* rendered list, and the focus is still there.
C35_Witness ==
    /\ lastOp.op = "Down" /\ length = 2 /\ currentFocus = 1
    /\ nRefresh = 0 /\ Len(visible) >= 1


\* ---------------------------------------------------------------------
\* Selection with host callbacks that call back into the list: one of
\* OnSelected and OnUnselected calls Select(id) for one row, the other only
\* observes.
InitCallbacks ==
    /\ InitList
    /\ updateHeight = NoHeight /\ visCap = NoCap
    /\ OnSelected \in HostCalls /\ OnUnselected \in HostCalls
    /\ OnSelected = NoCall \/ OnUnselected = NoCall
    /\ recon = NoRecon /\ calcIn = NoCalcIn /\ calcOut = NoCalcOut

SpecCallbacks == InitCallbacks /\ [][NextSel]_vars

\* The observer's set after the callbacks of a call, in the order they ran.
RECURSIVE Observed(_, _)
Observed(set, cbs) ==
    IF cbs = <<>> THEN set
    ELSE Observed(IF Head(cbs)[1] = "OnSelected" THEN set \cup {Head(cbs)[2]}
                  ELSE IF Head(cbs)[1] = "OnUnselected" THEN set \ {Head(cbs)[2]}
                  ELSE set,
                  Tail(cbs))

SelectedSet(sel) == {sel[k] : k \in 1 .. Len(sel)}

\* Claim C36: an observer that adds id on OnSelected(id) and removes id on
\* OnUnselected(id), and holds the selected set before a Select, Unselect,
\* UnselectAll, tap or space key, holds the selected set after it, also when
\* a callback itself calls Select; an Unselect of a row
\* that is not selected and a Select of the selected row fire no callback.
C36_ObserverTracksSelection ==
    [][/\ Observed(SelectedSet(selected), log') = SelectedSet(selected')
       /\ (lastOp'.op = "Select" /\ SelectedSet(selected) = {lastOp'.id})
              => log' = <<>>
       /\ (lastOp'.op = "Unselect" /\ SelectedSet(selected) # {lastOp'.id})
              => log' = <<>>]_vars


\* ---------------------------------------------------------------------
\* Selection on a list whose host data can shrink before the next refresh.
NextStale ==
    \/ DoResizeShown
    \/ DoSetLength
    \/ DoSelect
    \/ DoUnselect
    \/ DoUnselectAll
    \/ DoTapped

SpecStale == Init /\ [][NextStale]_vars

\* Claim C37: after a tap, Select, Unselect or UnselectAll on a rendered
\* list every handle of the visible set is highlighted as selected exactly
\* when its row ID is the selected ID; a tap whose Select is ignored leaves
\* no unselected row highlighted.
C37_HighlightMatchesSelection ==
    [][(rendered' /\ lastOp'.op \in {"Tapped", "Select", "Unselect", "UnselectAll"})
        => \A k \in 1 .. Len(visible') :
              items'[visible'[k].item].selected
                  <=> visible'[k].id \in SelectedSet(selected')]_vars

====
